---- MODULE Spec2Model ----
(***************************************************************************)
(* parse_cv_with_rules (src/app.py): the rule-based CV parser, as a staged *)
(* state machine over one input text.                                      *)
(*                                                                         *)
(* A Python str is a sequence of ASCII code points; a Python list of str   *)
(* is a sequence of such sequences.  '' and [] are both << >>.             *)
(***************************************************************************)
EXTENDS Integers, Sequences, FiniteSets, TLC

VARIABLES cv_text, lines, data, current_section, section_content, i, pc

vars == <<cv_text, lines, data, current_section, section_content, i, pc>>

-----------------------------------------------------------------------------
(* Character classes *)

Whitespace == {9, 10, 11, 12, 13, 28, 29, 30, 31, 32}

UpperLetters == 65..90

LowerLetters == 97..122

Letters == UpperLetters \cup LowerLetters

Digits == 48..57

WordChars == Letters \cup Digits \cup {95}

-----------------------------------------------------------------------------
(* Program constants *)

NameScanLines == 8

NameMaxWords == 4

NameMinLen == 5

NameMaxLen == 50

HeaderMaxWords == 5

HeaderMaxLen == 100

ContentMinLen == 5

SummaryLines == 3

ItemMinLen == 10

ItemMaxLen == 500

MaxItems == 10

SentenceMinLen == 20

FallbackScan == 20

FallbackTruncate == 200

-----------------------------------------------------------------------------
(* str methods *)

Take(s, n) == SubSeq(s, 1, IF n < Len(s) THEN n ELSE Len(s))

\* str.lower()
Lower(s) == [k \in 1..Len(s) |-> IF s[k] \in UpperLetters THEN s[k] + 32 ELSE s[k]]

\* str.strip()
Strip(s) ==
  LET a == CHOOSE j \in 1..(Len(s) + 1) :
             /\ (j = Len(s) + 1 \/ s[j] \notin Whitespace)
             /\ \A k \in 1..(j - 1) : s[k] \in Whitespace
      b == CHOOSE j \in 0..Len(s) :
             /\ (j = 0 \/ s[j] \notin Whitespace)
             /\ \A k \in (j + 1)..Len(s) : s[k] \in Whitespace
  IN SubSeq(s, a, b)

\* sub in s
Contains(s, sub) ==
  \E k \in 1..(Len(s) - Len(sub) + 1) :
     \A j \in 1..Len(sub) : s[k + j - 1] = sub[j]

\* any(word in s for word in words)
ContainsAny(s, words) == \E w \in 1..Len(words) : Contains(s, words[w])

\* s.endswith(c) for a one-character c
EndsWith(s, c) == Len(s) > 0 /\ s[Len(s)] = c

\* len(s.split()): the number of maximal runs of non-whitespace
WordCount(s) ==
  Cardinality({k \in 1..Len(s) :
                 s[k] \notin Whitespace /\ (k = 1 \/ s[k - 1] \in Whitespace)})

\* s.split(sep) for a one-character sep
Split(s, sep) ==
  LET seps == {k \in 1..Len(s) : s[k] = sep}
      n == Cardinality(seps)
      \* position of the m-th separator; 0 before the first, Len(s)+1 after the last
      at(m) == IF m = 0 THEN 0
               ELSE IF m = n + 1 THEN Len(s) + 1
               ELSE CHOOSE k \in seps : Cardinality({j \in seps : j < k}) = m - 1
  IN [m \in 1..(n + 1) |-> SubSeq(s, at(m - 1) + 1, at(m) - 1)]

\* s.replace(a, b) for one-character a, b
Replace(s, a, b) == [k \in 1..Len(s) |-> IF s[k] = a THEN b ELSE s[k]]

\* str.title(): a letter is upper-cased unless the previous character is a letter
Title(s) ==
  [k \in 1..Len(s) |->
     IF s[k] \notin Letters THEN s[k]
     ELSE IF k > 1 /\ s[k - 1] \in Letters
          THEN (IF s[k] \in UpperLetters THEN s[k] + 32 ELSE s[k])
          ELSE (IF s[k] \in LowerLetters THEN s[k] - 32 ELSE s[k])]

\* ' '.join(parts)
RECURSIVE JoinSpace(_)
JoinSpace(parts) ==
  IF Len(parts) = 0 THEN << >>
  ELSE IF Len(parts) = 1 THEN parts[1]
  ELSE parts[1] \o <<32>> \o JoinSpace(Tail(parts))

-----------------------------------------------------------------------------
(* re: a pattern is a sequence of tokens, each a greedy quantified         *)
(* character class [cls]{min,max} (max = -1: unbounded) or the assertion   *)
(* \b.  Matching backtracks as re does: the longest repetition whose rest  *)
(* matches wins.                                                           *)

Cls(c, lo, hi) == [kind |-> "cls", cls |-> c, min |-> lo, max |-> hi]

WordBoundary == [kind |-> "wb", cls |-> {}, min |-> 0, max |-> 0]

IsWordBoundary(s, pos) ==
  (pos > 1 /\ s[pos - 1] \in WordChars) # (pos <= Len(s) /\ s[pos] \in WordChars)

\* how many characters from pos on are in cls, at most max
RunLen(s, pos, cls, max) ==
  LET lim == IF max < 0 \/ pos + max > Len(s) + 1 THEN Len(s) + 1 ELSE pos + max
      stop == CHOOSE j \in pos..lim :
                /\ (j = lim \/ s[j] \notin cls)
                /\ \A k \in pos..(j - 1) : s[k] \in cls
  IN stop - pos

\* the position after the match of pat[k..] at pos, 0 if there is none
RECURSIVE MatchAt(_, _, _, _)
MatchAt(pat, k, s, pos) ==
  IF k > Len(pat) THEN pos
  ELSE LET tok == pat[k] IN
    IF tok.kind = "wb"
    THEN (IF IsWordBoundary(s, pos) THEN MatchAt(pat, k + 1, s, pos) ELSE 0)
    ELSE LET run == RunLen(s, pos, tok.cls, tok.max)
             ok == {n \in tok.min..run : MatchAt(pat, k + 1, s, pos + n) # 0}
         IN IF ok = {} THEN 0
            ELSE MatchAt(pat, k + 1, s, pos + (CHOOSE n \in ok : \A m \in ok : m <= n))

\* re.findall(pat, s)[0], '' when findall is empty
FindFirst(pat, s) ==
  LET hit(j) == MatchAt(pat, 1, s, j) # 0 IN
  IF \E j \in 1..Len(s) : hit(j)
  THEN LET j0 == CHOOSE j \in 1..Len(s) : hit(j) /\ \A k \in 1..(j - 1) : ~hit(k)
       IN SubSeq(s, j0, MatchAt(pat, 1, s, j0) - 1)
  ELSE << >>

\* for pattern in patterns: matches = findall; if matches: take matches[0]; break
FirstMatch(patterns, s) ==
  LET hit(p) == FindFirst(patterns[p], s) # << >> IN
  IF \E p \in 1..Len(patterns) : hit(p)
  THEN FindFirst(patterns[CHOOSE p \in 1..Len(patterns) :
                            hit(p) /\ \A q \in 1..(p - 1) : ~hit(q)], s)
  ELSE << >>

EmailLocal == Letters \cup Digits \cup {46, 95, 37, 43, 45}

EmailDomain == Letters \cup Digits \cup {46, 45}

email_patterns ==
  << << Cls(EmailLocal, 1, -1), Cls({64}, 1, 1), Cls(EmailDomain, 1, -1),
        Cls({46}, 1, 1), Cls(Letters, 2, -1) >>,
     << WordBoundary, Cls(EmailLocal, 1, -1), Cls({64}, 1, 1),
        Cls(EmailDomain, 1, -1), Cls({46}, 1, 1), Cls(Letters \cup {124}, 2, -1),
        WordBoundary >> >>

PhoneSep == Whitespace \cup {46, 45}

phone_patterns ==
  << << Cls({43}, 0, 1), Cls(Digits, 1, 3), Cls(PhoneSep, 0, 1), Cls({40}, 0, 1),
        Cls(Digits, 3, 3), Cls({41}, 0, 1), Cls(PhoneSep, 0, 1), Cls(Digits, 3, 3),
        Cls(PhoneSep, 0, 1), Cls(Digits, 4, 4) >>,
     << Cls({40}, 0, 1), Cls(Digits, 3, 3), Cls({41}, 0, 1), Cls(PhoneSep, 0, 1),
        Cls(Digits, 3, 3), Cls(PhoneSep, 0, 1), Cls(Digits, 4, 4) >>,
     << Cls(Digits, 3, 3), Cls(PhoneSep, 1, 1), Cls(Digits, 3, 3),
        Cls(PhoneSep, 1, 1), Cls(Digits, 4, 4) >>,
     << Cls(Digits, 10, 10) >>,
     << Cls({43}, 1, 1), Cls(Digits, 11, -1) >> >>

-----------------------------------------------------------------------------
(* parse_cv_with_rules *)

ListFields == {"education", "experience", "skills", "certifications", "projects"}

Fields == {"name", "email", "phone", "address", "summary"} \cup ListFields

\* faulty variant: the initial record without the 'address' key
InitDataNoAddress ==
  [name |-> << >>, email |-> << >>, phone |-> << >>,
   summary |-> << >>, education |-> << >>, experience |-> << >>,
   skills |-> << >>, certifications |-> << >>, projects |-> << >>]

InitData ==
  [name |-> << >>, email |-> << >>, phone |-> << >>, address |-> << >>,
   summary |-> << >>, education |-> << >>, experience |-> << >>,
   skills |-> << >>, certifications |-> << >>, projects |-> << >>]

\* lines = [line.strip() for line in cv_text.split('\n') if line.strip()]
NormalizeLines(text) ==
  LET raw == Split(text, 10)
      stripped == [k \in 1..Len(raw) |-> Strip(raw[k])]
      NonEmpty(l) == l # << >>
  IN SelectSeq(stripped, NonEmpty)

name_stoplist ==
  << <<97, 100, 100, 114, 101, 115, 115>>, <<112, 104, 111, 110, 101>>, <<101, 109, 97, 105, 108>>, <<99, 118>>, <<114, 101, 115, 117, 109, 101>>, <<99, 117, 114, 114, 105, 99, 117, 108, 117, 109>> >>

\* the test of one of the first lines as a name
IsNameCandidate(line) ==
  /\ \A k \in 1..Len(line) : line[k] \notin {64, 40, 41, 43}
  /\ WordCount(line) <= NameMaxWords
  /\ Len(line) > NameMinLen
  /\ Len(line) < NameMaxLen
  /\ ~ContainsAny(Lower(line), name_stoplist)
  /\ \A k \in 1..Len(line) : line[k] \in Letters \cup Whitespace \cup {46, 44, 45}

\* the first candidate among lines[:8], '' if there is none
NameHeuristic(ls) ==
  LET n == IF Len(ls) < NameScanLines THEN Len(ls) ELSE NameScanLines IN
  IF \E k \in 1..n : IsNameCandidate(ls[k])
  THEN ls[CHOOSE k \in 1..n :
            IsNameCandidate(ls[k]) /\ \A j \in 1..(k - 1) : ~IsNameCandidate(ls[j])]
  ELSE << >>

section_order ==
  <<"summary", "education", "experience", "skills", "certifications", "projects">>

section_keywords ==
  [summary |-> << <<115, 117, 109, 109, 97, 114, 121>>, <<111, 98, 106, 101, 99, 116, 105, 118, 101>>, <<112, 114, 111, 102, 105, 108, 101>>, <<97, 98, 111, 117, 116>>, <<111, 118, 101, 114, 118, 105, 101, 119>>,
                  <<105, 110, 116, 114, 111, 100, 117, 99, 116, 105, 111, 110>> >>,
   education |-> << <<101, 100, 117, 99, 97, 116, 105, 111, 110>>, <<97, 99, 97, 100, 101, 109, 105, 99>>, <<113, 117, 97, 108, 105, 102, 105, 99, 97, 116, 105, 111, 110>>, <<100, 101, 103, 114, 101, 101>>,
                    <<117, 110, 105, 118, 101, 114, 115, 105, 116, 121>>, <<115, 99, 104, 111, 111, 108>>, <<99, 111, 108, 108, 101, 103, 101>> >>,
   experience |-> << <<101, 120, 112, 101, 114, 105, 101, 110, 99, 101>>, <<101, 109, 112, 108, 111, 121, 109, 101, 110, 116>>, <<119, 111, 114, 107>>, <<99, 97, 114, 101, 101, 114>>,
                     <<112, 114, 111, 102, 101, 115, 115, 105, 111, 110, 97, 108>>, <<106, 111, 98>>, <<112, 111, 115, 105, 116, 105, 111, 110>> >>,
   skills |-> << <<115, 107, 105, 108, 108, 115>>, <<116, 101, 99, 104, 110, 105, 99, 97, 108>>, <<99, 111, 109, 112, 101, 116, 101, 110, 99, 105, 101, 115>>, <<101, 120, 112, 101, 114, 116, 105, 115, 101>>,
                 <<116, 101, 99, 104, 110, 111, 108, 111, 103, 105, 101, 115>>, <<97, 98, 105, 108, 105, 116, 105, 101, 115>> >>,
   certifications |-> << <<99, 101, 114, 116, 105, 102, 105, 99, 97, 116, 105, 111, 110>>, <<99, 101, 114, 116, 105, 102, 105, 99, 97, 116, 101, 115>>, <<108, 105, 99, 101, 110, 115, 101, 115>>, <<97, 119, 97, 114, 100, 115>>,
                         <<97, 99, 104, 105, 101, 118, 101, 109, 101, 110, 116, 115>> >>,
   projects |-> << <<112, 114, 111, 106, 101, 99, 116, 115>>, <<112, 111, 114, 116, 102, 111, 108, 105, 111>>, <<119, 111, 114, 107, 32, 115, 97, 109, 112, 108, 101, 115>>, <<112, 101, 114, 115, 111, 110, 97, 108, 32, 112, 114, 111, 106, 101, 99, 116, 115>> >>]

\* faulty variant: fewer than five words instead of at most five
HeaderShapeFewerWords(line) == WordCount(line) < HeaderMaxWords /\ Len(line) < HeaderMaxLen

\* the two conditions of a header line that do not depend on the keyword
HeaderShape(line) == WordCount(line) <= HeaderMaxWords /\ Len(line) < HeaderMaxLen

\* the section a line is a header of, "none" if it is no header
DetectSection(line) ==
  LET line_lower == Strip(Lower(line))
      hit(n) == HeaderShape(line) /\ ContainsAny(line_lower, section_keywords[section_order[n]])
  IN IF \E n \in 1..Len(section_order) : hit(n)
     THEN section_order[CHOOSE n \in 1..Len(section_order) :
                          hit(n) /\ \A m \in 1..(n - 1) : ~hit(m)]
     ELSE "none"

\* faulty variant: an existing buffer is kept (setdefault instead of assignment)
ResetBufferKeep(content, section) ==
  [s \in DOMAIN content \cup {section} |-> IF s \in DOMAIN content THEN content[s] ELSE << >>]

\* section_content[section] = []
ResetBuffer(content, section) ==
  [s \in DOMAIN content \cup {section} |-> IF s = section THEN << >> ELSE content[s]]

\* faulty variant: the test for a trailing ':' is missing
KeepContentNoColon(line) == Len(Strip(line)) > ContentMinLen

\* a non-header line that is kept as content
KeepContent(line) == Len(Strip(line)) > ContentMinLen /\ ~EndsWith(Strip(line), 58)

\* the cleaned items of a list section
CleanItems(content) ==
  LET Reasonable(item) == Len(item) > ItemMinLen /\ Len(item) < ItemMaxLen
  IN Take(SelectSeq(content, Reasonable), MaxItems)

\* the summary of a summary section
JoinSummary(content) == JoinSpace(Take(content, SummaryLines))

\* for section, content in section_content.items(): ...
ClassifySections(d, content) ==
  [f \in DOMAIN d |->
     IF f \in DOMAIN content /\ f = "summary" THEN JoinSummary(content[f])
     ELSE IF f \in DOMAIN content /\ f \in ListFields THEN CleanItems(content[f])
     ELSE d[f]]

\* not any(data[key] for key in ['education', 'experience', 'skills'])
FallbackTriggered(d) ==
  d.education = << >> /\ d.experience = << >> /\ d.skills = << >>

\* sentences = [s.strip() for s in cv_text.split('.') if len(s.strip()) > 20]
PseudoSentences(text) ==
  LET raw == Split(text, 46)
      stripped == [k \in 1..Len(raw) |-> Strip(raw[k])]
      LongEnough(s) == Len(s) > SentenceMinLen
  IN SelectSeq(stripped, LongEnough)

education_cues == << <<117, 110, 105, 118, 101, 114, 115, 105, 116, 121>>, <<100, 101, 103, 114, 101, 101>>, <<103, 114, 97, 100, 117, 97, 116, 101, 100>>, <<98, 97, 99, 104, 101, 108, 111, 114>>, <<109, 97, 115, 116, 101, 114>> >>

experience_cues == << <<119, 111, 114, 107, 101, 100>>, <<101, 109, 112, 108, 111, 121, 101, 100>>, <<99, 111, 109, 112, 97, 110, 121>>, <<114, 111, 108, 101>>, <<112, 111, 115, 105, 116, 105, 111, 110>> >>

skills_cues == << <<115, 107, 105, 108, 108>>, <<112, 114, 111, 102, 105, 99, 105, 101, 110, 116>>, <<101, 120, 112, 101, 114, 105, 101, 110, 99, 101, 32, 119, 105, 116, 104>>, <<107, 110, 111, 119, 108, 101, 100, 103, 101>> >>

fallback_summary == <<80, 114, 111, 102, 101, 115, 115, 105, 111, 110, 97, 108, 32, 119, 105, 116, 104, 32, 114, 101, 108, 101, 118, 97, 110, 116, 32, 101, 120, 112, 101, 114, 105, 101, 110, 99, 101>>

default_summary == <<69, 120, 112, 101, 114, 105, 101, 110, 99, 101, 100, 32, 112, 114, 111, 102, 101, 115, 115, 105, 111, 110, 97, 108, 32, 119, 105, 116, 104, 32, 97, 32, 115, 116, 114, 111, 110, 103, 32, 98, 97, 99, 107, 103, 114, 111, 117, 110, 100, 32, 105, 110, 32, 116, 104, 101, 105, 114, 32, 102, 105, 101, 108, 100, 46>>

\* faulty variant: the experience cues are tested before the education cues
FallbackTargetExperienceFirst(sentence) ==
  LET sentence_lower == Lower(sentence) IN
  IF ContainsAny(sentence_lower, experience_cues) THEN {"experience"}
  ELSE IF ContainsAny(sentence_lower, education_cues) THEN {"education"}
  ELSE IF ContainsAny(sentence_lower, skills_cues) THEN {"skills"}
  ELSE {}

\* faulty variant: three independent ifs instead of if / elif / elif
FallbackTargetIndependent(sentence) ==
  LET sentence_lower == Lower(sentence) IN
  (IF ContainsAny(sentence_lower, education_cues) THEN {"education"} ELSE {})
    \cup (IF ContainsAny(sentence_lower, experience_cues) THEN {"experience"} ELSE {})
    \cup (IF ContainsAny(sentence_lower, skills_cues) THEN {"skills"} ELSE {})

\* the list one pseudo-sentence is appended to: if / elif / elif
FallbackTarget(sentence) ==
  LET sentence_lower == Lower(sentence) IN
  IF ContainsAny(sentence_lower, education_cues) THEN {"education"}
  ELSE IF ContainsAny(sentence_lower, experience_cues) THEN {"experience"}
  ELSE IF ContainsAny(sentence_lower, skills_cues) THEN {"skills"}
  ELSE {}

\* how many pseudo-sentences the fallback scans: sentences[:20]
ScannedCount(sentences) ==
  IF Len(sentences) < FallbackScan THEN Len(sentences) ELSE FallbackScan

\* for sentence in sentences[:20]: ..., from the k-th on
RECURSIVE FallbackLoop(_, _, _)
FallbackLoop(d, sentences, k) ==
  IF k > ScannedCount(sentences) THEN d
  ELSE LET target == FallbackTarget(sentences[k])
           next == [f \in DOMAIN d |->
                      IF f \in target
                      THEN Append(d[f], Take(sentences[k], FallbackTruncate))
                      ELSE d[f]]
       IN FallbackLoop(next, sentences, k + 1)

\* sentences[0] if sentences else 'Professional with relevant experience'
FallbackSummary(sentences) ==
  IF sentences # << >> THEN sentences[1] ELSE fallback_summary

FallbackInfer(d, text) ==
  LET sentences == PseudoSentences(text) IN
  FallbackLoop([d EXCEPT !.summary = FallbackSummary(sentences)], sentences, 1)

\* faulty variant: capitalize() instead of title(): only the first character is upper-cased
NameFromEmailCapitalize(email) ==
  LET t == Lower(Replace(Split(email, 64)[1], 46, 32)) IN
  [k \in 1..Len(t) |-> IF k = 1 /\ t[k] \in LowerLetters THEN t[k] - 32 ELSE t[k]]

\* data['email'].split('@')[0].replace('.', ' ').title()
NameFromEmail(email) == Title(Replace(Split(email, 64)[1], 46, 32))

DefaultName(d) ==
  IF d.name = << >> /\ d.email # << >> THEN NameFromEmail(d.email) ELSE d.name

\* faulty variant: no placeholder for an empty summary
DefaultSummaryKeep(d) == d.summary

DefaultSummary(d) ==
  IF d.summary = << >> THEN default_summary ELSE d.summary

-----------------------------------------------------------------------------
(* Inputs *)

MaxLines == 3

PoolLines ==
  << <<69, 100, 117, 99, 97, 116, 105, 111, 110>>,
     <<83, 85, 77, 77, 65, 82, 89>>,
     <<66, 83, 99, 32, 67, 111, 109, 112, 117, 116, 101, 114, 32, 83, 99, 105, 101, 110, 99, 101, 44, 32, 83, 116, 97, 116, 101, 32, 85, 110, 105, 118, 101, 114, 115, 105, 116, 121, 44, 32, 50, 48, 49, 56>>,
     <<80, 121, 116, 104, 111, 110, 32, 51>>,
     <<76, 97, 110, 103, 117, 97, 103, 101, 115, 58>>,
     <<106, 97, 110, 101, 46, 100, 111, 101, 64, 101, 120, 97, 109, 112, 108, 101, 46, 99, 111, 109>>,
     <<87, 111, 114, 107, 101, 100, 32, 97, 116, 32, 83, 116, 97, 116, 101, 32, 85, 110, 105, 118, 101, 114, 115, 105, 116, 121, 46, 32, 80, 114, 111, 102, 105, 99, 105, 101, 110, 116, 32, 105, 110, 32, 80, 121, 116, 104, 111, 110, 32, 97, 110, 100, 32, 71, 111, 46>> >>

RECURSIVE JoinLines(_)
JoinLines(ls) ==
  IF Len(ls) = 0 THEN << >>
  ELSE IF Len(ls) = 1 THEN ls[1]
  ELSE ls[1] \o <<10>> \o JoinLines(Tail(ls))

PoolTexts ==
  UNION {{JoinLines([k \in 1..n |-> PoolLines[pick[k]]]) :
            pick \in [1..n -> 1..Len(PoolLines)]} : n \in 0..MaxLines}

JaneDoeText ==
  <<74, 97, 110, 101, 32, 68, 111, 101, 10, 106, 97, 110, 101, 46, 100, 111, 101, 64, 101, 120, 97, 109, 112, 108, 101, 46, 99, 111, 109, 10, 53, 53, 53, 45, 49, 50, 51, 45, 52, 53, 54, 55, 10, 10, 69, 100, 117, 99, 97, 116, 105, 111, 110, 10, 66, 83, 99, 32, 67, 111, 109, 112, 117, 116, 101, 114, 32, 83, 99, 105, 101, 110, 99, 101, 44, 32, 83, 116, 97, 116, 101, 32, 85, 110, 105, 118, 101, 114, 115, 105, 116, 121, 44, 32, 50, 48, 49, 56, 10, 10, 83, 107, 105, 108, 108, 115, 10, 80, 121, 116, 104, 111, 110, 44, 32, 100, 105, 115, 116, 114, 105, 98, 117, 116, 101, 100, 32, 115, 121, 115, 116, 101, 109, 115, 44, 32, 116, 101, 99, 104, 110, 105, 99, 97, 108, 32, 108, 101, 97, 100, 101, 114, 115, 104, 105, 112>>

Repeat(s, n) == [k \in 1..(n * Len(s)) |-> s[((k - 1) % Len(s)) + 1]]

FillerSentence == <<69, 110, 106, 111, 121, 115, 32, 104, 105, 107, 105, 110, 103, 32, 97, 110, 100, 32, 108, 97, 110, 100, 115, 99, 97, 112, 101, 32, 112, 104, 111, 116, 111, 103, 114, 97, 112, 104, 121, 46, 32>>

DegreeSentence == <<71, 114, 97, 100, 117, 97, 116, 101, 100, 32, 102, 114, 111, 109, 32, 83, 116, 97, 116, 101, 32, 85, 110, 105, 118, 101, 114, 115, 105, 116, 121, 46, 32>>

\* eleven pseudo-sentences, each with an education cue, and no header
ElevenDegreesText == Repeat(DegreeSentence, 11)

\* twenty pseudo-sentences without a cue, then one with an education cue
LateDegreeText == Repeat(FillerSentence, 20) \o DegreeSentence

\* an education section of twelve content lines
ManyItemsText == <<69, 100, 117, 99, 97, 116, 105, 111, 110>> \o Repeat(<<10, 67, 111, 117, 114, 115, 101, 32, 105, 110, 32, 97, 112, 112, 108, 105, 101, 100, 32, 109, 97, 116, 104, 101, 109, 97, 116, 105, 99, 115>>, 12)

\* an education section with a content line of 503 characters
LongLineText ==
  <<69, 100, 117, 99, 97, 116, 105, 111, 110, 10>> \o Repeat(<<108, 111, 114, 101, 109, 32, 105, 112, 115, 117, 109, 32>>, 42)
    \o <<10, 66, 83, 99, 32, 67, 111, 109, 112, 117, 116, 101, 114, 32, 83, 99, 105, 101, 110, 99, 101, 44, 32, 83, 116, 97, 116, 101, 32, 85, 110, 105, 118, 101, 114, 115, 105, 116, 121, 44, 32, 50, 48, 49, 56>>

\* a summary section of four content lines, then an education section
FourLineSummaryText ==
  <<83, 85, 77, 77, 65, 82, 89, 10, 83, 101, 97, 115, 111, 110, 101, 100, 32, 98, 97, 99, 107, 101, 110, 100, 32, 101, 110, 103, 105, 110, 101, 101, 114, 10, 66, 117, 105, 108, 100, 115, 32, 114, 101, 108, 105, 97, 98, 108, 101, 32, 115, 101, 114, 118, 105, 99, 101, 115, 10, 77, 101, 110, 116, 111, 114, 115, 32, 106, 117, 110, 105, 111, 114, 32, 115, 116, 97, 102, 102, 10, 69, 110, 106, 111, 121, 115, 32, 99, 111, 100, 101, 32, 114, 101, 118, 105, 101, 119, 10, 69, 100, 117, 99, 97, 116, 105, 111, 110, 10, 66, 83, 99, 32, 67, 111, 109, 112, 117, 116, 101, 114, 32, 83, 99, 105, 101, 110, 99, 101, 44, 32, 83, 116, 97, 116, 101, 32, 85, 110, 105, 118, 101, 114, 115, 105, 116, 121, 44, 32, 50, 48, 49, 56>>

\* no name candidate; an email whose local part has digits, capitals and '_'
MixedCaseEmailText == <<43, 49, 32, 40, 53, 53, 53, 41, 32, 49, 50, 51, 45, 52, 53, 54, 55, 10, 106, 52, 110, 101, 95, 68, 79, 69, 46, 115, 109, 105, 116, 104, 64, 109, 97, 105, 108, 46, 101, 120, 97, 109, 112, 108, 101, 46, 111, 114, 103>>

\* an address only the second email pattern matches
PipeEmailText == <<67, 111, 110, 116, 97, 99, 116, 32, 97, 64, 98, 46, 99, 124, 100, 32, 110, 111, 119>>

\* a line before the first header, and a line ending with ':' inside a section
ColonLineText ==
  <<74, 97, 110, 101, 32, 68, 111, 101, 10, 83, 107, 105, 108, 108, 115, 10, 76, 97, 110, 103, 117, 97, 103, 101, 115, 58, 10, 80, 121, 116, 104, 111, 110, 44, 32, 71, 111, 44, 32, 82, 117, 115, 116, 32, 97, 110, 100, 32, 84, 121, 112, 101, 83, 99, 114, 105, 112, 116, 32, 101, 118, 101, 114, 121, 32, 100, 97, 121>>

ScenarioTexts ==
  {JaneDoeText, ElevenDegreesText, LateDegreeText, ManyItemsText, LongLineText,
   FourLineSummaryText, MixedCaseEmailText, PipeEmailText, ColonLineText}

Inputs == PoolTexts \cup ScenarioTexts

-----------------------------------------------------------------------------
(* The state machine *)

Init ==
  /\ cv_text \in Inputs
  /\ lines = << >>
  /\ data = InitData
  /\ current_section = "none"
  /\ section_content = << >>
  /\ i = 0
  /\ pc = "start"

SplitLines ==
  /\ pc = "start"
  /\ lines' = NormalizeLines(cv_text)
  /\ pc' = "email"
  /\ UNCHANGED <<cv_text, data, current_section, section_content, i>>

ExtractEmail ==
  /\ pc = "email"
  /\ data' = [data EXCEPT !.email = FirstMatch(email_patterns, cv_text)]
  /\ pc' = "phone"
  /\ UNCHANGED <<cv_text, lines, current_section, section_content, i>>

ExtractPhone ==
  /\ pc = "phone"
  /\ data' = [data EXCEPT !.phone = FirstMatch(phone_patterns, cv_text)]
  /\ pc' = "name"
  /\ UNCHANGED <<cv_text, lines, current_section, section_content, i>>

ExtractName ==
  /\ pc = "name"
  /\ data' = [data EXCEPT !.name = NameHeuristic(lines)]
  /\ pc' = "segment"
  /\ UNCHANGED <<cv_text, lines, current_section, section_content, i>>

SegmentHeader ==
  /\ pc = "segment"
  /\ i < Len(lines)
  /\ DetectSection(lines[i + 1]) # "none"
  /\ current_section' = DetectSection(lines[i + 1])
  /\ section_content' = ResetBuffer(section_content, DetectSection(lines[i + 1]))
  /\ i' = i + 1
  /\ UNCHANGED <<cv_text, lines, data, pc>>

\* section_content[current_section] raises KeyError when the key is missing
SegmentContent ==
  /\ pc = "segment"
  /\ i < Len(lines)
  /\ DetectSection(lines[i + 1]) = "none"
  /\ IF current_section # "none" /\ Strip(lines[i + 1]) # << >> /\ KeepContent(lines[i + 1])
     THEN IF current_section \in DOMAIN section_content
          THEN /\ section_content' = [section_content EXCEPT
                                        ![current_section] = Append(@, Strip(lines[i + 1]))]
               /\ i' = i + 1
               /\ pc' = pc
          ELSE /\ pc' = "raised"
               /\ UNCHANGED <<section_content, i>>
     ELSE /\ i' = i + 1
          /\ UNCHANGED <<section_content, pc>>
  /\ UNCHANGED <<cv_text, lines, data, current_section>>

Classify ==
  /\ pc = "segment"
  /\ i >= Len(lines)
  /\ data' = ClassifySections(data, section_content)
  /\ pc' = "fallback"
  /\ UNCHANGED <<cv_text, lines, current_section, section_content, i>>

Fallback ==
  /\ pc = "fallback"
  /\ FallbackTriggered(data)
  /\ data' = FallbackInfer(data, cv_text)
  /\ pc' = "assemble"
  /\ UNCHANGED <<cv_text, lines, current_section, section_content, i>>

FallbackSkip ==
  /\ pc = "fallback"
  /\ ~FallbackTriggered(data)
  /\ pc' = "assemble"
  /\ UNCHANGED <<cv_text, lines, data, current_section, section_content, i>>

Assemble ==
  /\ pc = "assemble"
  /\ data' = [data EXCEPT !.name = DefaultName(data), !.summary = DefaultSummary(data)]
  /\ pc' = "done"
  /\ UNCHANGED <<cv_text, lines, current_section, section_content, i>>

Next ==
  \/ SplitLines
  \/ ExtractEmail
  \/ ExtractPhone
  \/ ExtractName
  \/ SegmentHeader
  \/ SegmentContent
  \/ Classify
  \/ Fallback
  \/ FallbackSkip
  \/ Assemble

Spec == Init /\ [][Next]_vars

-----------------------------------------------------------------------------
(* Properties *)

Range(s) == {s[k] : k \in 1..Len(s)}

\* the scan of the lines is over
Scanned == pc \in {"fallback", "assemble", "done"}

\* a section buffer holds no item of length strictly between 10 and 500
NoUsableItems(sec) ==
  sec \notin DOMAIN section_content
    \/ \A k \in 1..Len(section_content[sec]) :
         ~(Len(section_content[sec][k]) > 10 /\ Len(section_content[sec][k]) < 500)

\* education, experience and skills are all empty after classification
StructureEmpty == \A sec \in {"education", "experience", "skills"} : NoUsableItems(sec)

\* the summary of the summary section: its first 3 lines joined by single spaces
SectionSummary ==
  IF "summary" \in DOMAIN section_content
  THEN JoinSpace(Take(section_content["summary"], 3))
  ELSE << >>

EduCue(s) == ContainsAny(Lower(s), education_cues)

ExpCue(s) == ContainsAny(Lower(s), experience_cues)

SkillCue(s) == ContainsAny(Lower(s), skills_cues)

FirstTwenty == Take(PseudoSentences(cv_text), 20)

Truncated(seq) == [k \in 1..Len(seq) |-> Take(seq[k], 200)]

NoHeaderLine == \A k \in 1..Len(lines) : DetectSection(lines[k]) = "none"

\* C1 (as claimed; refuted by the fallback path): in the returned record each of
\* the five list fields has at most 10 items and every item has length strictly
\* between 10 and 500.
C1_ListsBounded ==
  pc = "done" =>
    \A f \in ListFields :
      /\ Len(data[f]) <= 10
      /\ \A k \in 1..Len(data[f]) : Len(data[f][k]) > 10 /\ Len(data[f][k]) < 500

\* C2: the returned summary is never empty: it is the summary section's text, the
\* first pseudo-sentence, or one of the two placeholders; and when education,
\* experience and skills are all empty after classification, the fallback has set
\* a non-empty summary before assembly.
C2_SummaryNonEmpty ==
  /\ (pc = "assemble" /\ StructureEmpty) => data.summary # << >>
  /\ pc = "done" =>
       /\ data.summary # << >>
       /\ \/ data.summary = SectionSummary
          \/ /\ PseudoSentences(cv_text) # << >>
             /\ data.summary = PseudoSentences(cv_text)[1]
          \/ data.summary = fallback_summary
          \/ data.summary = default_summary

\* C2 witness: the fallback ran and the summary is the first pseudo-sentence.
C2_Witness ==
  /\ pc = "done"
  /\ StructureEmpty
  /\ PseudoSentences(cv_text) # << >>
  /\ data.summary = PseudoSentences(cv_text)[1]

BScLine == <<66, 83, 99, 32, 67, 111, 109, 112, 117, 116, 101, 114, 32, 83, 99, 105, 101, 110, 99, 101, 44, 32, 83, 116, 97, 116, 101, 32, 85, 110, 105, 118, 101, 114, 115, 105, 116, 121, 44, 32, 50, 48, 49, 56>>

PythonLine == <<80, 121, 116, 104, 111, 110, 44, 32, 100, 105, 115, 116, 114, 105, 98, 117, 116, 101, 100, 32, 115, 121, 115, 116, 101, 109, 115, 44, 32, 116, 101, 99, 104, 110, 105, 99, 97, 108, 32, 108, 101, 97, 100, 101, 114, 115, 104, 105, 112>>

\* C3 (as claimed; refuted): for the Jane Doe text the record has the name, email
\* and phone of the first three lines, education = [the BSc line], skills = [the
\* Python line] and the assembler's placeholder as summary, neither content line
\* being a header.
C3_JaneDoeAsClaimed ==
  (pc = "done" /\ cv_text = JaneDoeText) =>
    /\ data.name = <<74, 97, 110, 101, 32, 68, 111, 101>>
    /\ data.email = <<106, 97, 110, 101, 46, 100, 111, 101, 64, 101, 120, 97, 109, 112, 108, 101, 46, 99, 111, 109>>
    /\ data.phone = <<53, 53, 53, 45, 49, 50, 51, 45, 52, 53, 54, 55>>
    /\ data.education = <<BScLine>>
    /\ data.skills = <<PythonLine>>
    /\ data.summary = default_summary
    /\ DetectSection(BScLine) = "none"
    /\ DetectSection(PythonLine) = "none"

\* C3 (amended): for the Jane Doe text the record has the name, email and phone of
\* the first three lines, education = [the BSc line] and the assembler's
\* placeholder as summary, but skills is empty: the Python line has five words and
\* contains 'technical', so it is a skills header, not content; the BSc line (six
\* words) is content.
C3_JaneDoe ==
  (pc = "done" /\ cv_text = JaneDoeText) =>
    /\ data.name = <<74, 97, 110, 101, 32, 68, 111, 101>>
    /\ data.email = <<106, 97, 110, 101, 46, 100, 111, 101, 64, 101, 120, 97, 109, 112, 108, 101, 46, 99, 111, 109>>
    /\ data.phone = <<53, 53, 53, 45, 49, 50, 51, 45, 52, 53, 54, 55>>
    /\ data.education = <<BScLine>>
    /\ data.skills = << >>
    /\ data.summary = default_summary
    /\ DetectSection(BScLine) = "none"
    /\ DetectSection(PythonLine) = "skills"

\* C3 witness: the Jane Doe text has been parsed.
C3_Witness == pc = "done" /\ cv_text = JaneDoeText /\ data.education = <<BScLine>>

\* an upper bound on the number of steps left before the record is returned
StepsLeft ==
  CASE pc = "start" -> Len(NormalizeLines(cv_text)) + 7
    [] pc = "email" -> Len(lines) + 6
    [] pc = "phone" -> Len(lines) + 5
    [] pc = "name" -> Len(lines) + 4
    [] pc = "segment" -> (Len(lines) - i) + 3
    [] pc = "fallback" -> 2
    [] pc = "assemble" -> 1
    [] OTHER -> 0

TitledLocalPart(email) ==
  LET at == CHOOSE k \in 1..Len(email) :
              email[k] = 64 /\ \A j \in 1..(k - 1) : email[j] # 64
      spaced == [k \in 1..(at - 1) |-> IF email[k] = 46 THEN 32 ELSE email[k]]
  IN [k \in 1..(at - 1) |->
        IF spaced[k] \in UpperLetters /\ k > 1 /\ spaced[k - 1] \in Letters
          THEN spaced[k] + 32
        ELSE IF spaced[k] \in LowerLetters /\ (k = 1 \/ spaced[k - 1] \notin Letters)
          THEN spaced[k] - 32
        ELSE spaced[k]]

C6_EducationCueAnywhere ==
  (pc = "done" /\ NoHeaderLine) =>
    \A k \in 1..Len(PseudoSentences(cv_text)) :
      EduCue(PseudoSentences(cv_text)[k])
        => Take(PseudoSentences(cv_text)[k], 200) \in Range(data.education)

\* C6 (amended): without a header line, every pseudo-sentence with an education
\* cue that is among the first 20 pseudo-sentences is in education, truncated to
\* 200.
C6_EducationCueInFirstTwenty ==
  (pc = "done" /\ NoHeaderLine) =>
    \A k \in 1..Len(FirstTwenty) :
      EduCue(FirstTwenty[k]) => Take(FirstTwenty[k], 200) \in Range(data.education)

\* C6 witness: no header line, and a pseudo-sentence with an education cue that
\* was put into education.
C6_Witness ==
  /\ pc = "done"
  /\ NoHeaderLine
  /\ \E k \in 1..Len(FirstTwenty) :
       EduCue(FirstTwenty[k]) /\ Take(FirstTwenty[k], 200) \in Range(data.education)

\* C7 (as claimed; refuted by the fallback): a non-empty summary set by the
\* classifier from the summary section is the summary of the returned record.
C7_ClassifiedSummaryKept ==
  (pc = "done" /\ SectionSummary # << >>) => data.summary = SectionSummary

\* C8 (as claimed; refuted): in the fallback path each of the first 20
\* pseudo-sentences is in every list whose cue set it matches.
C8_FallbackIndependentCues ==
  (pc = "done" /\ StructureEmpty) =>
    \A k \in 1..Len(FirstTwenty) :
      /\ EduCue(FirstTwenty[k]) => Take(FirstTwenty[k], 200) \in Range(data.education)
      /\ ExpCue(FirstTwenty[k]) => Take(FirstTwenty[k], 200) \in Range(data.experience)
      /\ SkillCue(FirstTwenty[k]) => Take(FirstTwenty[k], 200) \in Range(data.skills)

EduOnly(s) == EduCue(s)

ExpOnly(s) == ~EduCue(s) /\ ExpCue(s)

SkillOnly(s) == ~EduCue(s) /\ ~ExpCue(s) /\ SkillCue(s)

\* C8 (amended): in the fallback path each of the first 20 pseudo-sentences is
\* appended, truncated to 200, to one list at most: the first of education,
\* experience, skills whose cue set it matches.
C8_FallbackFirstMatchingCue ==
  (pc = "done" /\ StructureEmpty) =>
    /\ data.education = Truncated(SelectSeq(FirstTwenty, EduOnly))
    /\ data.experience = Truncated(SelectSeq(FirstTwenty, ExpOnly))
    /\ data.skills = Truncated(SelectSeq(FirstTwenty, SkillOnly))

\* C8 witness: the fallback ran on a pseudo-sentence with an education and an
\* experience cue, which is in education and not in experience.
C8_Witness ==
  /\ pc = "done"
  /\ StructureEmpty
  /\ \E k \in 1..Len(FirstTwenty) :
       /\ EduCue(FirstTwenty[k]) /\ ExpCue(FirstTwenty[k])
       /\ Take(FirstTwenty[k], 200) \in Range(data.education)
       /\ Take(FirstTwenty[k], 200) \notin Range(data.experience)

\* the index of the last header line for sec, 0 if there is none
LastHeaderOf(sec) ==
  LET hs == {j \in 1..Len(lines) : DetectSection(lines[j]) = sec}
  IN IF hs = {} THEN 0 ELSE CHOOSE k \in hs : \A j \in hs : j <= k

\* C9: a header line for section S makes S the active section, empties the buffer
\* of S, leaves every other buffer as it is and adds the header line to none; so
\* at the end of the scan the buffer of S holds only lines that come after the
\* last header line for S.
C9_HeaderResetsOwnBuffer ==
  /\ [][(pc = "segment" /\ i < Len(lines) /\ DetectSection(lines[i + 1]) # "none") =>
          /\ current_section' = DetectSection(lines[i + 1])
          /\ DOMAIN section_content' =
               DOMAIN section_content \cup {DetectSection(lines[i + 1])}
          /\ section_content'[DetectSection(lines[i + 1])] = << >>
          /\ \A sec \in DOMAIN section_content \ {DetectSection(lines[i + 1])} :
               section_content'[sec] = section_content[sec]]_vars
  /\ [](Scanned =>
          \A sec \in DOMAIN section_content :
            \A k \in 1..Len(section_content[sec]) :
              \E j \in (LastHeaderOf(sec) + 1)..Len(lines) :
                lines[j] = section_content[sec][k])

\* C9 witness: a second header line for a section has just been read, after a
\* content line was kept for that section.
C9_Witness ==
  /\ pc = "segment"
  /\ i > 2
  /\ DetectSection(lines[i]) # "none"
  /\ section_content[DetectSection(lines[i])] = << >>
  /\ \E j \in 1..(i - 2) :
       /\ DetectSection(lines[j]) = DetectSection(lines[i])
       /\ DetectSection(lines[j + 1]) = "none"
       /\ Len(lines[j + 1]) > 5
       /\ lines[j + 1][Len(lines[j + 1])] # 58

\* the section that is active once the first n lines are read
ActiveAfter(n) ==
  LET hs == {j \in 1..n : DetectSection(lines[j]) # "none"}
  IN IF hs = {} THEN "none" ELSE DetectSection(lines[CHOOSE k \in hs : \A j \in hs : j <= k])

\* among the first n lines, the non-header lines read while sec was active and
\* after its last header, longer than 5 and not ending with ':'
KeptIndices(sec, n) ==
  {k \in 1..n :
     /\ DetectSection(lines[k]) = "none"
     /\ ActiveAfter(k) = sec
     /\ \A j \in k..n : DetectSection(lines[j]) # sec
     /\ Len(lines[k]) > 5
     /\ lines[k][Len(lines[k])] # 58}

\* the lines at the indices idx, in input order
LinesAt(idx) ==
  [m \in 1..Cardinality(idx) |->
     lines[CHOOSE k \in idx : Cardinality({j \in idx : j < k}) = m - 1]]

\* C10: at every step of the scan each buffer holds, in input order, exactly the
\* non-header lines read while its section was active (since its last header)
\* that are longer than 5 and do not end with ':'; a section has a buffer only
\* once a header of it was read, so lines before the first header are in none.
C10_BuffersHoldActiveContent ==
  pc \in {"segment", "fallback", "assemble", "done"} =>
    /\ DOMAIN section_content =
         {DetectSection(lines[j]) : j \in {k \in 1..i : DetectSection(lines[k]) # "none"}}
    /\ \A sec \in DOMAIN section_content :
         section_content[sec] = LinesAt(KeptIndices(sec, i))

\* C10 witness: the scan is over, a line before the first header is in no buffer,
\* a line ending with ':' was dropped, and a buffer holds a line.
C10_Witness ==
  /\ pc = "segment"
  /\ i = Len(lines)
  /\ i >= 3
  /\ DetectSection(lines[1]) = "none"
  /\ \E k \in 1..i : lines[k][Len(lines[k])] = 58 /\ ActiveAfter(k) # "none"
  /\ \E sec \in DOMAIN section_content : section_content[sec] # << >>

====
